---- MODULE Spec2Model ----
(***************************************************************************)
(* A model of the senate-trading strategy: the disclosure scraper          *)
(* (senate_long/scraper.py and the earlier senate_scraper.py) and the      *)
(* rebalance scheduler (senate_long/strategy.py).                          *)
(*                                                                         *)
(* Text that the code takes apart (table cells) is a sequence of           *)
(* one-character strings.  Python values that a function returns or the    *)
(* exception it raises are records with a field "raised".                  *)
(***************************************************************************)
EXTENDS Integers, Sequences, FiniteSets, TLC

(***************************************************************************)
(* Bounds of the model.                                                    *)
(***************************************************************************)
\* Index pages the simulated portal holds.
MaxPages == 3
\* Iterations of the scheduler's loop that are followed.
MaxIters == 3

(***************************************************************************)
(* Program constants.                                                      *)
(***************************************************************************)
BATCH_SIZE == 100

(***************************************************************************)
(* Text helpers: str.split('$')[-1], str.replace(',', ''), str.strip(),    *)
(* int(str).                                                               *)
(***************************************************************************)
Digits == {"0", "1", "2", "3", "4", "5", "6", "7", "8", "9"}

DigitVal(c) ==
    CASE c = "0" -> 0 [] c = "1" -> 1 [] c = "2" -> 2 [] c = "3" -> 3
      [] c = "4" -> 4 [] c = "5" -> 5 [] c = "6" -> 6 [] c = "7" -> 7
      [] c = "8" -> 8 [] c = "9" -> 9

\* The value of F at v, with v computed once.
With(v, F(_)) == CHOOSE y \in {F(x) : x \in {v}} : TRUE

\* s.split(sep)[-1]: the text after the last occurrence of sep (all of s
\* when sep does not occur).
AfterLast(s, sep) ==
    LET at == {j \in 1..Len(s) : s[j] = sep}
    IN  IF at = {} THEN s
        ELSE SubSeq(s, (CHOOSE j \in at : \A k \in at : k <= j) + 1, Len(s))

\* s.replace(c, '')
Remove(s, c) == SelectSeq(s, LAMBDA x : x # c)

\* s.strip(): leading and trailing blanks removed.
Strip(s) ==
    LET inked == {j \in 1..Len(s) : s[j] # " "}
    IN  IF inked = {} THEN <<>>
        ELSE SubSeq(s, CHOOSE j \in inked : \A k \in inked : j <= k,
                       CHOOSE j \in inked : \A k \in inked : k <= j)

\* The number the first n digits of s write.
RECURSIVE DigitsValue(_, _)
DigitsValue(s, n) ==
    IF n = 0 THEN 0 ELSE 10 * DigitsValue(s, n - 1) + DigitVal(s[n])

\* int(s): blanks around the number are accepted, then an optional sign and
\* at least one digit; anything else raises ValueError.
ParseSigned(t) ==
    LET signed == t # <<>> /\ Head(t) \in {"-", "+"}
        d == IF signed THEN Tail(t) ELSE t
    IN  IF d # <<>> /\ \A j \in 1..Len(d) : d[j] \in Digits
        THEN [raised |-> "none",
              val |-> IF signed /\ Head(t) = "-" THEN 0 - DigitsValue(d, Len(d))
                      ELSE DigitsValue(d, Len(d))]
        ELSE [raised |-> "ValueError", val |-> 0]

ParseInt(s) == With(Strip(s), LAMBDA t : ParseSigned(t))

\* int(cols[7].split('$')[-1].replace(',', ''))
tx_amount(cell) == ParseInt(Remove(AfterLast(cell, "$"), ","))

(***************************************************************************)
(* The simulated disclosure portal.                                        *)
(*                                                                         *)
(* A portal is [landing, pages].  landing says what the landing page       *)
(* gives a bootstrap: "ok", "nofield" (no hidden csrfmiddlewaretoken       *)
(* field) or "nocookie" (neither cookie after the POST).  pages[k] is the  *)
(* answer to the index request at offset (k-1)*BATCH_SIZE: an HTTP status  *)
(* and the rows of the JSON data field; past the last page the portal      *)
(* answers 200 with no rows.                                               *)
(*                                                                         *)
(* An index row is a filing: redirects is the number of successive GETs    *)
(* of its detail page that the portal redirects to the landing page        *)
(* (expired session), reboot what a bootstrap run for this filing meets,   *)
(* pdf whether its link starts with /search/view/paper/, page its detail   *)
(* page: the number of tbody elements and the tr rows of the first one.    *)
(* A table row holds the cells the code reads: cols[1] as a day number     *)
(* (the date text names that day), cols[3], cols[6] and cols[7].           *)
(***************************************************************************)
Amt1000 == <<"$", "1", ",", "0", "0", "0">>
AmtRange == <<"$", "1", "0", "0", " ", "-", " ", "$", "5", "0", "0">>
AmtBad == <<"-", "-">>
AmtZero == <<"$", "0">>
Amt300 == <<"$", "3", "0", "0">>
Amt700 == <<"$", "7", "0", "0">>
Amt500 == <<"$", "5", "0", "0">>
AAA == <<"A", "A", "A">>
BBB == <<"B", "B", "B">>

TxRow(d, t, ty, a) == [day |-> d, ticker |-> t, type |-> ty, amount |-> a]
DetailPage(n, rs) == [tbodies |-> n, rows |-> rs]
Filing(nm, rd, rb, pdf, pg) ==
    [name |-> nm, redirects |-> rd, reboot |-> rb, pdf |-> pdf, page |-> pg]

\* The landing page holds a form and no table.
LandingPage == DetailPage(0, <<>>)

RowGood == Filing("f1", 0, "ok", FALSE,
                  DetailPage(1, <<TxRow(90, <<"A">>, "Purchase", Amt1000)>>))
RowBad == Filing("f2", 0, "ok", FALSE,
                 DetailPage(1, <<TxRow(90, <<"B">>, "Purchase", AmtBad)>>))
RowGoodB == Filing("f8", 0, "ok", FALSE,
                   DetailPage(1, <<TxRow(95, <<"B">>, "Purchase", AmtRange)>>))
RowPaper == Filing("f3", 0, "ok", TRUE, DetailPage(0, <<>>))
RowRedir1 == Filing("f4", 1, "ok", FALSE,
                    DetailPage(1, <<TxRow(95, <<" ", "B">>, "Purchase", AmtRange)>>))
RowRedir2 == Filing("f5", 2, "ok", FALSE,
                    DetailPage(1, <<TxRow(95, <<"B">>, "Purchase", AmtRange)>>))
RowRebootFail == Filing("f6", 1, "nofield", FALSE,
                        DetailPage(1, <<TxRow(95, <<"A">>, "Purchase", AmtRange)>>))
RowMixed == Filing("f7", 0, "ok", FALSE,
                   DetailPage(1, <<TxRow(92, <<"A">>, "Sale (Full)", Amt1000),
                                   TxRow(10, <<"B">>, "Purchase", Amt1000),
                                   TxRow(40, <<"C">>, "Purchase", AmtRange),
                                   TxRow(91, <<"-", "-">>, "Purchase", Amt1000)>>))

\* A filing whose only row has the amount cell "$0".
RowZero == Filing("f9", 0, "ok", FALSE,
                  DetailPage(1, <<TxRow(90, <<"C">>, "Purchase", AmtZero)>>))
\* Two purchases inside the window, $300 and $700.
RowShares == Filing("f10", 0, "ok", FALSE,
                    DetailPage(1, <<TxRow(91, AAA, "Purchase", Amt300),
                                    TxRow(90, BBB, "Purchase", Amt700)>>))
\* With now on day 100: a purchase 31 days back and one 92 days back.
RowLookback == Filing("f11", 0, "ok", FALSE,
                      DetailPage(1, <<TxRow(69, AAA, "Purchase", Amt1000),
                                      TxRow(8, BBB, "Purchase", Amt500)>>))

IndexPage(st, rs) == [status |-> st, data |-> rs]

PagePool ==
    { IndexPage(200, <<>>),
      IndexPage(200, <<RowGood>>),
      IndexPage(200, <<RowBad, RowGood>>),
      IndexPage(200, <<RowGood, RowRedir1>>),
      IndexPage(200, <<RowRedir2, RowGood>>),
      IndexPage(200, <<RowPaper, RowMixed>>),
      IndexPage(200, <<RowRebootFail, RowGood>>),
      IndexPage(200, <<RowGood, RowGoodB>>),
      IndexPage(200, <<RowZero, RowGood>>),
      IndexPage(500, <<RowGood>>) }

SeqsUpTo(S, n) == UNION {[1..m -> S] : m \in 0..n}

Portals ==
    [landing : {"ok", "nofield", "nocookie"}, pages : SeqsUpTo(PagePool, MaxPages)]

(***************************************************************************)
(* senate_long/scraper.py                                                  *)
(***************************************************************************)
\* csrf: the bare except swallows every failure and the function then
\* returns None.
csrf(landing) == IF landing = "ok" THEN "token" ELSE "None"

\* The portal's answer to the index request at the given offset.
IndexResponse(pages, offset) ==
    LET k == (offset \div BATCH_SIZE) + 1
    IN  IF k <= Len(pages) THEN pages[k] ELSE IndexPage(200, <<>>)

\* fetch_reports: [] on a non-200 answer, else the data rows.
fetch_reports(pages, offset) ==
    LET response == IndexResponse(pages, offset)
    IN  IF response.status # 200 THEN <<>> ELSE response.data

\* The loop of senator_reports written as an if: the first page is kept and
\* no further page is asked for.
reports_loop_once(pages, i, reports, acc) ==
    IF Len(reports) # 0
    THEN [all_reports |-> acc.all_reports \o reports, requests |-> acc.requests]
    ELSE acc

\* senator_reports, the while loop: acc holds all_reports and the offsets
\* requested so far.
RECURSIVE reports_loop(_, _, _, _)
reports_loop(pages, i, reports, acc) ==
    IF Len(reports) # 0
    THEN With([i |-> i + BATCH_SIZE,
               reports |-> fetch_reports(pages, i + BATCH_SIZE),
               acc |-> [all_reports |-> acc.all_reports \o reports,
                        requests |-> Append(acc.requests, i + BATCH_SIZE)]],
              LAMBDA n : reports_loop(pages, n.i, n.reports, n.acc))
    ELSE acc

senator_reports(portal) ==
    With(reports_loop(portal.pages, 0, fetch_reports(portal.pages, 0),
                      [all_reports |-> <<>>, requests |-> <<0>>]),
         LAMBDA r : [raised |-> "none", token |-> csrf(portal.landing), bootstraps |-> 1,
                     all_reports |-> r.all_reports, requests |-> r.requests])

\* The n-th GET of a filing's detail page: the landing page while the portal
\* still redirects, the detail page after.
DetailResponse(row, n) ==
    IF n <= row.redirects
    THEN [redirected |-> TRUE, page |-> LandingPage]
    ELSE [redirected |-> FALSE, page |-> row.page]

\* fetch_tbody: one GET, and report.find('tbody') of whatever came back.
fetch_tbody(row) ==
    LET report == DetailResponse(row, 1).page
    IN  [raised |-> "none", gets |-> 1, bootstraps |-> 0,
         found |-> report.tbodies > 0, rows |-> report.rows]

\* The date test letting every date through.
on_or_after_cutoff_always(day, now, lookback_period) == TRUE

\* strptime(tx_date) >= now - timedelta(days=lookback_period), in half days:
\* now is a half-day count, a transaction date the midnight of its day.
on_or_after_cutoff(day, now, lookback_period) ==
    2 * day >= now - 2 * lookback_period

\* fetch_txs, the loop over the table rows; stocks is the list built so far.
\* The amount is parsed before anything else is looked at, and int() raising
\* leaves the function.
\* rows[k..] are the rows still to read.
RECURSIVE txs_loop(_, _, _, _, _, _, _)
txs_loop(rows, k, name, now, lookback_period, tx_type, stocks) ==
    IF k > Len(rows) THEN [raised |-> "none", stocks |-> stocks]
    ELSE With([amount |-> tx_amount(rows[k].amount), ticker |-> Strip(rows[k].ticker)],
              LAMBDA c :
                IF c.amount.raised # "none"
                THEN [raised |-> c.amount.raised, stocks |-> stocks]
                ELSE With(IF /\ c.ticker \notin {<<"-", "-">>, <<>>}
                             /\ on_or_after_cutoff(rows[k].day, now, lookback_period)
                             /\ rows[k].type = tx_type
                          THEN Append(stocks,
                                      [senator |-> name, tx_date |-> rows[k].day,
                                       ticker |-> c.ticker, type |-> rows[k].type,
                                       tx_amount |-> c.amount.val])
                          ELSE stocks,
                          LAMBDA st : txs_loop(rows, k + 1, name, now, lookback_period,
                                               tx_type, st)))

\* fetch_txs without the test of tbody: find_all on None raises.
fetch_txs_unguarded(row, now, lookback_period, tx_type) ==
    With(fetch_tbody(row), LAMBDA tbody :
      With(IF tbody.found
           THEN txs_loop(tbody.rows, 1, row.name, now, lookback_period, tx_type, <<>>)
           ELSE [raised |-> "AttributeError", stocks |-> <<>>],
           LAMBDA r : [raised |-> r.raised, txs |-> r.stocks, filing |-> row.name,
                       redirects |-> row.redirects,
                       gets |-> tbody.gets, bootstraps |-> tbody.bootstraps]))

\* fetch_txs: the transactions of one filing, with the GETs and bootstraps
\* it cost.
fetch_txs(row, now, lookback_period, tx_type) ==
    With(fetch_tbody(row), LAMBDA tbody :
      With(IF tbody.found
           THEN txs_loop(tbody.rows, 1, row.name, now, lookback_period, tx_type, <<>>)
           ELSE [raised |-> "none", stocks |-> <<>>],
           LAMBDA r : [raised |-> r.raised, txs |-> r.stocks, filing |-> row.name,
                       redirects |-> row.redirects,
                       gets |-> tbody.gets, bootstraps |-> tbody.bootstraps]))

\* DataFrame.sort_values('tx_date', ascending=False): rows in descending
\* date order, rows of equal date in their earlier order.
InsertDesc(sorted, rec) ==
    LET before == {j \in 1..Len(sorted) : sorted[j].tx_date >= rec.tx_date}
        n == Cardinality(before)
    IN  SubSeq(sorted, 1, n) \o <<rec>> \o SubSeq(sorted, n + 1, Len(sorted))

\* The first n rows of txs, sorted.
RECURSIVE sort_prefix(_, _)
sort_prefix(txs, n) ==
    IF n = 0 THEN <<>>
    ELSE With(sort_prefix(txs, n - 1), LAMBDA sorted : InsertDesc(sorted, txs[n]))

sort_values_desc(txs) == sort_prefix(txs, Len(txs))

\* senate_trading, the loop over the reports: acc holds all_txs and one log
\* entry per filing fetched.  An exception of fetch_txs leaves the loop.
\* What one filing adds to the loop's state.
Gathered(acc, txs) ==
    [raised |-> txs.raised,
     all_txs |-> IF txs.raised = "none" THEN acc.all_txs \o txs.txs ELSE acc.all_txs,
     filings |-> Append(acc.filings, txs)]

RECURSIVE trading_loop(_, _, _, _, _, _)
trading_loop(reports, k, now, lookback_period, tx_type, acc) ==
    IF k > Len(reports) THEN acc
    ELSE With(Gathered(acc, fetch_txs(reports[k], now, lookback_period, tx_type)),
              LAMBDA next :
                IF next.raised # "none" THEN next
                ELSE trading_loop(reports, k + 1, now, lookback_period, tx_type, next))

\* senate_trading: sort_values on the empty, column-less frame raises
\* KeyError('tx_date').
Sorted(reports, r) ==
    LET raised == IF r.raised # "none" THEN r.raised
                  ELSE IF r.all_txs = <<>> THEN "KeyError" ELSE "none"
    IN  [raised |-> raised,
         txs |-> IF raised = "none" THEN sort_values_desc(r.all_txs) ELSE <<>>,
         token |-> reports.token, session |-> reports.raised,
         all_reports |-> reports.all_reports, requests |-> reports.requests,
         filings |-> r.filings]

senate_trading(portal, now, lookback_period, tx_type) ==
    With(senator_reports(portal), LAMBDA reports :
      With(trading_loop(reports.all_reports, 1, now, lookback_period, tx_type,
                        [raised |-> "none", all_txs |-> <<>>, filings |-> <<>>]),
           LAMBDA r : Sorted(reports, r)))

(***************************************************************************)
(* senate_scraper.py, the earlier scraper.  Its functions carry the suffix *)
(* _old where the later module reuses the name.                            *)
(***************************************************************************)
\* _csrf: no handler; a missing form field raises TypeError (None['value']),
\* a missing cookie KeyError.
csrf_old(landing) ==
    CASE landing = "ok" -> [raised |-> "none", token |-> "token"]
      [] landing = "nofield" -> [raised |-> "TypeError", token |-> "None"]
      [] OTHER -> [raised |-> "KeyError", token |-> "None"]

\* reports_api: a non-200 answer is printed and its body decoded all the
\* same; the body of an error answer is no JSON document.
reports_api(pages, offset) ==
    LET response == IndexResponse(pages, offset)
    IN  IF response.status # 200
        THEN [raised |-> "JSONDecodeError", data |-> <<>>]
        ELSE [raised |-> "none", data |-> response.data]

RECURSIVE reports_loop_old(_, _, _, _)
reports_loop_old(pages, idx, reports, acc) ==
    IF reports.raised # "none" THEN [acc EXCEPT !.raised = reports.raised]
    ELSE IF Len(reports.data) # 0
    THEN With([idx |-> idx + BATCH_SIZE,
               reports |-> reports_api(pages, idx + BATCH_SIZE),
               acc |-> [acc EXCEPT !.all_reports = @ \o reports.data,
                                   !.requests = Append(@, idx + BATCH_SIZE)]],
              LAMBDA n : reports_loop_old(pages, n.idx, n.reports, n.acc))
    ELSE acc

senator_reports_old(portal) ==
    With(csrf_old(portal.landing), LAMBDA token :
      IF token.raised # "none"
      THEN [raised |-> token.raised, token |-> "None", bootstraps |-> 1,
            all_reports |-> <<>>, requests |-> <<>>]
      ELSE With(reports_loop_old(portal.pages, 0, reports_api(portal.pages, 0),
                                 [raised |-> "none", all_reports |-> <<>>,
                                  requests |-> <<0>>]),
                LAMBDA r : [raised |-> r.raised, token |-> token.token, bootstraps |-> 1,
                            all_reports |-> r.all_reports, requests |-> r.requests]))

\* _tbody_from_link: a GET; when it ended on the landing page, _csrf and one
\* more GET; then the first tbody of the last answer, or None.
tbody_from_link(row) ==
    LET first == DetailResponse(row, 1)
        again == csrf_old(row.reboot)
        second == DetailResponse(row, 2)
        report == IF first.redirected THEN second.page ELSE first.page
    IN  IF first.redirected /\ again.raised # "none"
        THEN [raised |-> again.raised, gets |-> 1, bootstraps |-> 1,
              found |-> FALSE, rows |-> <<>>]
        ELSE [raised |-> "none",
              gets |-> IF first.redirected THEN 2 ELSE 1,
              bootstraps |-> IF first.redirected THEN 1 ELSE 0,
              found |-> report.tbodies > 0, rows |-> report.rows]

\* txs_for_report, the loop over the table rows: no date or type filter.
RECURSIVE txs_loop_old(_, _, _, _)
txs_loop_old(rows, k, name, stocks) ==
    IF k > Len(rows) THEN [raised |-> "none", stocks |-> stocks]
    ELSE With([amount |-> tx_amount(rows[k].amount), ticker |-> Strip(rows[k].ticker)],
              LAMBDA c :
                IF c.amount.raised # "none"
                THEN [raised |-> c.amount.raised, stocks |-> stocks]
                ELSE With(IF c.ticker \notin {<<"-", "-">>, <<>>}
                          THEN Append(stocks,
                                      [senator |-> name, tx_date |-> rows[k].day,
                                       ticker |-> c.ticker, type |-> rows[k].type,
                                       tx_amount |-> c.amount.val])
                          ELSE stocks,
                          LAMBDA st : txs_loop_old(rows, k + 1, name, st)))

\* txs_for_report: the detail page is fetched before the paper prefix of the
\* link is looked at.
txs_for_report(row) ==
    With(tbody_from_link(row), LAMBDA tbody :
      With(IF tbody.raised # "none" THEN [raised |-> tbody.raised, stocks |-> <<>>]
           ELSE IF row.pdf \/ ~tbody.found THEN [raised |-> "none", stocks |-> <<>>]
           ELSE txs_loop_old(tbody.rows, 1, row.name, <<>>),
           LAMBDA r : [raised |-> r.raised, txs |-> r.stocks, filing |-> row.name,
                       redirects |-> row.redirects,
                       gets |-> tbody.gets, bootstraps |-> tbody.bootstraps]))

RECURSIVE trading_loop_old(_, _, _)
trading_loop_old(reports, k, acc) ==
    IF k > Len(reports) THEN acc
    ELSE With(Gathered(acc, txs_for_report(reports[k])),
              LAMBDA next :
                IF next.raised # "none" THEN next
                ELSE trading_loop_old(reports, k + 1, next))

\* senate_trading of senate_scraper.py: drop(columns=['file_date']) on the
\* empty, column-less frame raises KeyError.
senate_trading_old(portal) ==
    With(senator_reports_old(portal), LAMBDA reports :
      With(IF reports.raised # "none"
           THEN [raised |-> reports.raised, all_txs |-> <<>>, filings |-> <<>>]
           ELSE trading_loop_old(reports.all_reports, 1,
                                 [raised |-> "none", all_txs |-> <<>>, filings |-> <<>>]),
           LAMBDA r : Sorted(reports, r)))

(***************************************************************************)
(* senate_long/strategy.py                                                 *)
(*                                                                         *)
(* The simulated brokerage of one run: close_fail is the number of the     *)
(* close_all_positions call that raises (0: none), cash the account's cash *)
(* in cents, unknown the tickers get_asset raises for, not_fractionable    *)
(* the tickers whose asset is not fractionable, rejected the tickers whose *)
(* order submit_order raises for.                                          *)
(***************************************************************************)
Tickers == {<<"A">>, <<"B">>, <<"C">>}

AtMostOne(S) == {T \in SUBSET S : Cardinality(T) <= 1}

Brokers ==
    [close_fail : 0..2, cash : {100000}, unknown : AtMostOne(Tickers),
     not_fractionable : AtMostOne(Tickers), rejected : AtMostOne(Tickers)]

\* One call made to a collaborator, as the brokerage or the portal sees it.
Call(op, pass, ticker, notional) ==
    [op |-> op, pass |-> pass, ticker |-> ticker, notional |-> notional]

\* What keyring.get_password answers: None for a missing entry, else the
\* stored string, which may be empty.
KeyValues == {"None", "", "key"}
Keyrings == [api_key : KeyValues, secret_key : KeyValues]
Stored == [api_key |-> "key", secret_key |-> "key"]

\* not x, for x a string or None
falsy(x) == x \in {"None", ""}

\* _load_client without the test of the two keys.
load_client_unchecked(keyring) == [raised |-> "none"]

\* _load_client: the two keys are read from the keyring and the client is
\* built only when both are there.
load_client(keyring) ==
    IF falsy(keyring.api_key) \/ falsy(keyring.secret_key)
    THEN [raised |-> "Exception"]
    ELSE [raised |-> "none"]

CountOp(calls, op) == Cardinality({j \in 1..Len(calls) : calls[j].op = op})

\* close_all: close_all_positions(cancel_orders=True); nth is the number of
\* this call within the run.
close_all(broker, nth, pass) ==
    [raised |-> IF broker.close_fail = nth THEN "APIError" ELSE "none",
     calls |-> <<Call("close_all_positions", pass, <<>>, 0)>>]

\* The sum of the first n tx_amount values.
RECURSIVE SumAmounts(_, _)
SumAmounts(txs, n) ==
    IF n = 0 THEN 0 ELSE SumAmounts(txs, n - 1) + txs[n].tx_amount

\* The cash split evenly over the transactions.
Weighted_evenly(txs, total, cash) ==
    [j \in 1..Len(txs) |->
        [ticker |-> txs[j].ticker, tx_date |-> txs[j].tx_date, type |-> txs[j].type,
         tx_amount |-> txs[j].tx_amount,
         num |-> cash, den |-> Len(txs)]]

\* load_orders: the scrape, then the cash, then one weighted_amount per
\* transaction: tx_amount / sum * cash, kept as the fraction num / den of
\* cents.  den = 0 stands for the NaN that pandas gives for 0 / 0.
Weighted(txs, total, cash) ==
    [j \in 1..Len(txs) |->
        [ticker |-> txs[j].ticker, tx_date |-> txs[j].tx_date, type |-> txs[j].type,
         tx_amount |-> txs[j].tx_amount,
         num |-> txs[j].tx_amount * cash, den |-> total]]

load_orders(portal, now, position_length, broker, pass) ==
    With(senate_trading(portal, now, position_length, "Purchase"), LAMBDA scraped :
      IF scraped.raised # "none"
      THEN [raised |-> scraped.raised, orders |-> <<>>,
            calls |-> <<Call("senate_trading", pass, <<>>, 0)>>]
      ELSE With(SumAmounts(scraped.txs, Len(scraped.txs)), LAMBDA total :
             [raised |-> "none",
              orders |-> Weighted(scraped.txs, total, broker.cash),
              calls |-> <<Call("senate_trading", pass, <<>>, 0),
                          Call("get_account", pass, <<>>, broker.cash)>>]))

\* The amount rounded up to the next cent.
round2_up(num, den) ==
    IF num % den = 0 THEN num \div den ELSE (num \div den) + 1

\* round(weighted_amount, 2), in cents: the nearest cent, a tie to the even
\* cent.
round2(num, den) ==
    LET q == num \div den
        r == num % den
    IN  IF 2 * r < den THEN q
        ELSE IF 2 * r > den THEN q + 1
        ELSE IF q % 2 = 0 THEN q ELSE q + 1

\* buy_orders, the loop over orders.iterrows(); orders[k..] are the orders
\* still to place.
RECURSIVE buy_loop(_, _, _, _, _)
buy_loop(orders, k, broker, pass, calls) ==
    IF k > Len(orders) THEN [raised |-> "none", calls |-> calls]
    ELSE With([asked |-> Append(calls, Call("get_asset", pass, orders[k].ticker, 0)),
               sent |-> calls \o <<Call("get_asset", pass, orders[k].ticker, 0),
                                    Call("submit_order", pass, orders[k].ticker,
                                         round2(orders[k].num, orders[k].den))>>],
              LAMBDA c :
                IF orders[k].ticker \in broker.unknown
                THEN [raised |-> "APIError", calls |-> c.asked]
                ELSE IF orders[k].ticker \in broker.not_fractionable
                THEN buy_loop(orders, k + 1, broker, pass, c.asked)
                ELSE IF orders[k].ticker \in broker.rejected
                THEN [raised |-> "APIError", calls |-> c.sent]
                ELSE buy_loop(orders, k + 1, broker, pass, c.sent))

\* The closing print of buy_orders reads self.orders, an attribute no code
\* of the class sets.
closing_print == "AttributeError"

\* buy_orders: the loop and then the closing print.
buy_orders(orders, broker, pass) ==
    With(buy_loop(orders, 1, broker, pass, <<>>), LAMBDA r :
      IF r.raised # "none" THEN r
      ELSE [raised |-> closing_print, calls |-> r.calls])

\* close_all(), load_orders(), buy_orders(orders) in this order, stopping at
\* the first that raises; closed is the number of close_all calls made
\* before.
sequence_once(w, closed, pass) ==
    With(close_all(w.broker, closed + 1, pass), LAMBDA c :
      IF c.raised # "none" THEN [raised |-> c.raised, calls |-> c.calls, orders |-> <<>>]
      ELSE With(load_orders(w.portal, w.now, w.position_length, w.broker, pass),
                LAMBDA l :
                  IF l.raised # "none"
                  THEN [raised |-> l.raised, calls |-> c.calls \o l.calls,
                        orders |-> <<>>]
                  ELSE With(buy_orders(l.orders, w.broker, pass), LAMBDA b :
                         [raised |-> b.raised, calls |-> c.calls \o l.calls \o b.calls,
                          orders |-> l.orders])))

\* rebalance() with the frequency taken off next_rebalance on the way out.
rebalance_rewinding(w, clk, due) ==
    With(sequence_once(w, 0, 1), LAMBDA first :
      [propagated |-> first.raised, caught |-> "none",
       next_rebalance |-> due - w.rebalance_frequency,
       calls |-> first.calls, orders |-> first.orders])

\* rebalance: the sequence once outside the try, then once more inside it.
\* propagated is the exception that leaves rebalance(), caught the one its
\* bare except took.
rebalance(w, clk, due) ==
    With(sequence_once(w, 0, 1), LAMBDA first :
      IF first.raised # "none"
      THEN [propagated |-> first.raised, caught |-> "none", next_rebalance |-> due,
            calls |-> first.calls, orders |-> first.orders]
      ELSE With(sequence_once(w, 1, 2), LAMBDA second :
             IF second.raised # "none"
             THEN [propagated |-> "none", caught |-> second.raised,
                   next_rebalance |-> clk.next_open,
                   calls |-> first.calls \o second.calls, orders |-> second.orders]
             ELSE [propagated |-> "none", caught |-> "none",
                   next_rebalance |-> due + w.rebalance_frequency,
                   calls |-> first.calls \o second.calls, orders |-> second.orders]))

(***************************************************************************)
(* senate_long.py, the earlier script.                                     *)
(***************************************************************************)
POSITION_LENGTH == 55
FUND_SIZE == 1000

\* load_apis: the same test of the two brokerage keys.
load_apis(keyring) ==
    IF falsy(keyring.api_key) \/ falsy(keyring.secret_key)
    THEN [raised |-> "Exception"]
    ELSE [raised |-> "none"]

\* One row of the frame quiver.senate_trading() answers with; Amount is in
\* dollars, Date the midnight of a day.
QuiverRow(t, d, ty, a) == [Ticker |-> t, Date |-> d, Transaction |-> ty, Amount |-> a]

\* df[(df['Date'] >= cutoff_date) & (df['Transaction'] == 'Purchase')]
purchases_since_cutoff(df, now) ==
    SelectSeq(df, LAMBDA row : /\ 2 * row.Date >= now - 2 * POSITION_LENGTH
                               /\ row.Transaction = "Purchase")

\* df['Amount'].sum() of the first n rows
RECURSIVE SumAmount(_, _)
SumAmount(df, n) ==
    IF n = 0 THEN 0 ELSE SumAmount(df, n - 1) + df[n].Amount

\* load_orders_df: the filter, then Amount / sum * FUND_SIZE in place of
\* Amount, kept as the fraction num / den of cents; the columns Range,
\* Senator, Transaction and Date are dropped.
load_orders_df(quiver, now) ==
    With(purchases_since_cutoff(quiver, now), LAMBDA df :
      With(SumAmount(df, Len(df)), LAMBDA total :
        [j \in 1..Len(df) |->
            [ticker |-> df[j].Ticker,
             num |-> df[j].Amount * FUND_SIZE * 100, den |-> total]]))

\* init_buy_orders, the loop: every order is submitted with round(Amount, 2)
\* for its notional; an order the brokerage rejects raises out of the loop.
RECURSIVE init_buy_loop(_, _, _, _, _)
init_buy_loop(orders, k, broker, pass, calls) ==
    IF k > Len(orders) THEN [raised |-> "none", calls |-> calls]
    ELSE With(Append(calls, Call("submit_order", pass, orders[k].ticker,
                                 round2(orders[k].num, orders[k].den))),
              LAMBDA sent :
                IF orders[k].ticker \in broker.rejected
                THEN [raised |-> "APIError", calls |-> sent]
                ELSE init_buy_loop(orders, k + 1, broker, pass, sent))

\* init_buy_orders: the loop, then the exposure read from the account.
init_buy_orders(orders, broker, pass) ==
    With(init_buy_loop(orders, 1, broker, pass, <<>>), LAMBDA r :
      IF r.raised # "none" THEN r
      ELSE [raised |-> "none",
            calls |-> Append(r.calls, Call("get_account", pass, <<>>, 0))])

\* sell_all: close_all_positions(cancel_orders=True); nth is the number of
\* this call within the run.
sell_all(broker, nth, pass) ==
    [raised |-> IF broker.close_fail = nth THEN "APIError" ELSE "none",
     calls |-> <<Call("close_all_positions", pass, <<>>, 0)>>]

\* One pass of the main loop up to wait_for_market: load_orders_df(), then
\* sell_all() and init_buy_orders() when the clock read at startup says the
\* market is open, then fund_details().
main_cycle(w, clk, pass) ==
    With([orders |-> load_orders_df(w.quiver, w.now),
          calls |-> <<Call("quiver.senate_trading", pass, <<>>, 0)>>],
         LAMBDA l :
           IF ~clk.is_open
           THEN [raised |-> "none", orders |-> l.orders,
                 calls |-> Append(l.calls, Call("get_account", pass, <<>>, 0))]
           ELSE With(sell_all(w.broker, pass, pass), LAMBDA c :
                  IF c.raised # "none"
                  THEN [raised |-> c.raised, orders |-> l.orders,
                        calls |-> l.calls \o c.calls]
                  ELSE With(init_buy_orders(l.orders, w.broker, pass), LAMBDA b :
                         [raised |-> b.raised, orders |-> l.orders,
                          calls |-> IF b.raised # "none"
                                    THEN l.calls \o c.calls \o b.calls
                                    ELSE Append(l.calls \o c.calls \o b.calls,
                                                Call("get_account", pass, <<>>, 0))])))

\* wait_for_market, the first sleep: to six days after the next open of the
\* clock read at startup.
week_open(clk) == clk.next_open + 6

\* wait_for_market, the test of its while loop: not clock.is_open, of the
\* clock read at startup.
market_closed(clk) == ~clk.is_open

(***************************************************************************)
(* State.                                                                  *)
(*                                                                         *)
(* world is what the program runs against: the portal, the brokerage, the  *)
(* clock get_clock() answers with at startup, datetime.now() in half days  *)
(* and the two parameters of Strategy.__init__.  The brokerage clock is in *)
(* days.                                                                   *)
(***************************************************************************)
VARIABLES
    world,           \* the collaborators and the configuration
    pc,              \* where the program is
    clock,           \* Strategy.clock, read once in run()
    next_rebalance,  \* Strategy.next_rebalance
    time,            \* the brokerage's current timestamp
    iters,           \* loop iterations finished
    last,            \* what the last iteration did
    out              \* what the last scrape returned

vars == <<world, pc, clock, next_rebalance, time, iters, last, out>>

Clocks == {[timestamp |-> 100, next_open |-> 101],
           [timestamp |-> 100, next_open |-> 103]}

NoClock == [timestamp |-> 0, next_open |-> 0]

DefaultBroker ==
    [close_fail |-> 0, cash |-> 100000, unknown |-> {}, not_fractionable |-> {},
     rejected |-> {}]

\* The portals the scheduler is run against.
SchedPages ==
    { <<>>,
      <<IndexPage(200, <<RowGood>>)>>,
      <<IndexPage(200, <<RowGood, RowGoodB>>)>>,
      <<IndexPage(200, <<RowGood, RowGoodB>>), IndexPage(200, <<RowMixed>>)>>,
      <<IndexPage(200, <<RowPaper, RowMixed>>)>>,
      <<IndexPage(200, <<RowBad, RowGood>>)>> }

SchedWorlds ==
    [portal : [landing : {"ok"}, pages : SchedPages],
     broker : Brokers,
     clock : Clocks,
     now : {200, 201},
     position_length : {60},
     rebalance_frequency : {1, 7},
     keyring : {Stored}]

\* The keyrings the process is started with, the rest of the world fixed.
KeyringWorlds ==
    [portal : [landing : {"ok"}, pages : {<<IndexPage(200, <<RowGood>>)>>}],
     broker : {DefaultBroker},
     clock : Clocks,
     now : {200},
     position_length : {60},
     rebalance_frequency : {7},
     keyring : Keyrings]

ScrapeWorlds ==
    [portal : Portals,
     broker : {DefaultBroker},
     clock : {CHOOSE c \in Clocks : c.next_open = 101},
     now : {200, 201},
     position_length : {60},
     rebalance_frequency : {7},
     keyring : {Stored}]

NoIteration ==
    [due |-> FALSE, rebalanced |-> FALSE, interrupted |-> FALSE, slept |-> FALSE,
     started |-> 0, due_before |-> 0, propagated |-> "none", caught |-> "none",
     calls |-> <<>>, orders |-> <<>>]

NoScrape ==
    [impl |-> "none", raised |-> "none", txs |-> <<>>, token |-> "None",
     session |-> "none", all_reports |-> <<>>, requests |-> <<>>, filings |-> <<>>]

(***************************************************************************)
(* run() of strategy.py from the start of the process.                     *)
(***************************************************************************)
Init ==
    /\ world \in SchedWorlds \cup KeyringWorlds
    /\ pc = "start"
    /\ clock = NoClock
    /\ next_rebalance = 0
    /\ time = world.clock.timestamp
    /\ iters = 0
    /\ last = NoIteration
    /\ out = NoScrape

\* The first rebalance put off to the next open.
first_rebalance_at_open(clk) == clk.next_open

\* self.next_rebalance = self.clock.timestamp
first_rebalance(clk) == clk.timestamp

\* run(), up to the loop: the client (no client and no call when a key is
\* missing), the account, the clock, the first rebalance due at once, the
\* fund details.
Start ==
    /\ pc = "start"
    /\ \E client \in {load_client(world.keyring)} :
         IF client.raised # "none"
         THEN /\ pc' = "aborted"
              /\ last' = [NoIteration EXCEPT !.propagated = client.raised]
              /\ UNCHANGED <<clock, next_rebalance>>
         ELSE /\ clock' = world.clock
              /\ next_rebalance' = first_rebalance(world.clock)
              /\ pc' = "loop"
              /\ last' = [NoIteration EXCEPT
                            !.calls = <<Call("get_account", 0, <<>>, 0),
                                        Call("get_clock", 0, <<>>, 0),
                                        Call("get_all_positions", 0, <<>>, 0)>>]
    /\ UNCHANGED <<world, time, iters, out>>

\* senate_long.py, the main block up to its loop: load_apis() and the clock.
ScriptStart ==
    /\ pc = "start"
    /\ \E apis \in {load_apis(world.keyring)} :
         IF apis.raised # "none"
         THEN /\ pc' = "aborted"
              /\ last' = [NoIteration EXCEPT !.propagated = apis.raised]
              /\ UNCHANGED clock
         ELSE /\ clock' = world.clock
              /\ pc' = "script"
              /\ last' = [NoIteration EXCEPT
                            !.calls = <<Call("get_clock", 0, <<>>, 0)>>]
    /\ UNCHANGED <<world, next_rebalance, time, iters, out>>

\* The test of the loop with the comparison turned round.
rebalance_due_reversed(ts, due) == ts <= due

\* The test of the loop: is a rebalance due?
rebalance_due(ts, due) == ts >= due

\* One iteration of the loop of run(): rebalance() and fund_details() when a
\* rebalance is due, then wait_for_market().  An exception that leaves
\* rebalance() leaves run().  wait_for_market sleeps from the timestamp to
\* the next open of the clock read at startup, and returns either way: after
\* the sleep, or after the KeyboardInterrupt that cut it short.
LoopIteration ==
    /\ pc = "loop"
    /\ iters < MaxIters
    /\ \E interrupted \in BOOLEAN, r \in {rebalance(world, clock, next_rebalance)} :
         LET due == rebalance_due(clock.timestamp, next_rebalance)
             left == due /\ r.propagated # "none"
             did == [due |-> due, rebalanced |-> due,
                     interrupted |-> ~left /\ interrupted,
                     slept |-> ~left /\ ~interrupted,
                     started |-> time, due_before |-> next_rebalance,
                     propagated |-> IF due THEN r.propagated ELSE "none",
                     caught |-> IF due THEN r.caught ELSE "none",
                     calls |-> IF due THEN r.calls ELSE <<>>,
                     orders |-> IF due THEN r.orders ELSE <<>>]
         IN  /\ last' = did
             /\ next_rebalance' = IF due THEN r.next_rebalance ELSE next_rebalance
             /\ pc' = IF left THEN "crashed" ELSE "loop"
             /\ time' = IF did.slept THEN time + (clock.next_open - clock.timestamp)
                        ELSE time
             /\ iters' = iters + 1
    /\ UNCHANGED <<world, clock, out>>

Next == Start \/ ScriptStart \/ LoopIteration

Spec == Init /\ [][Next]_vars

(***************************************************************************)
(* The loop of run() taken from any state of the scheduler: next_rebalance *)
(* as one of its three assignments leaves it (the startup timestamp, the   *)
(* next open, a multiple of the frequency later).                          *)
(***************************************************************************)
InitLoop ==
    /\ world \in SchedWorlds
    /\ pc = "loop"
    /\ clock = world.clock
    /\ next_rebalance \in {world.clock.timestamp, world.clock.next_open,
                           world.clock.timestamp + world.rebalance_frequency}
    /\ time = world.clock.timestamp
    /\ iters = 0
    /\ last = NoIteration
    /\ out = NoScrape

NextLoop == LoopIteration

SpecLoop == InitLoop /\ [][NextLoop]_vars

(***************************************************************************)
(* One scrape by either scraper module against any portal.                 *)
(***************************************************************************)
InitScrape ==
    /\ world \in ScrapeWorlds
    /\ pc = "scrape"
    /\ clock = NoClock
    /\ next_rebalance = 0
    /\ time = 0
    /\ iters = 0
    /\ last = NoIteration
    /\ out = NoScrape

\* senate_trading(lookback_period, 'Purchase') of senate_long/scraper.py
Scrape ==
    /\ pc = "scrape"
    /\ out' = [impl |-> "scraper"] @@
              senate_trading(world.portal, world.now, world.position_length, "Purchase")
    /\ pc' = "scraped"
    /\ UNCHANGED <<world, clock, next_rebalance, time, iters, last>>

\* senate_trading() of senate_scraper.py
ScrapeOld ==
    /\ pc = "scrape"
    /\ out' = [impl |-> "senate_scraper"] @@ senate_trading_old(world.portal)
    /\ pc' = "scraped"
    /\ UNCHANGED <<world, clock, next_rebalance, time, iters, last>>

NextScrape == Scrape \/ ScrapeOld

SpecScrape == InitScrape /\ [][NextScrape]_vars

(***************************************************************************)
(* One plan built by load_orders of strategy.py or by load_orders_df of    *)
(* senate_long.py, for any portal, frame and cash.                         *)
(***************************************************************************)
PlanPages ==
    { <<IndexPage(200, <<RowShares>>)>>,
      <<IndexPage(200, <<RowLookback>>)>>,
      <<IndexPage(200, <<RowGood, RowGoodB>>)>>,
      <<IndexPage(200, <<RowZero>>)>>,
      <<IndexPage(200, <<RowZero, RowGood>>)>>,
      <<IndexPage(200, <<RowPaper, RowMixed>>)>>,
      <<IndexPage(200, <<RowBad, RowGood>>)>>,
      <<IndexPage(200, <<RowGood, RowGoodB>>), IndexPage(200, <<RowMixed>>)>>,
      <<IndexPage(200, <<RowShares>>), IndexPage(200, <<RowLookback, RowMixed>>)>> }

QuiverRows ==
    { QuiverRow(AAA, 91, "Purchase", 300),
      QuiverRow(BBB, 90, "Purchase", 700),
      QuiverRow(AAA, 69, "Purchase", 1000),
      QuiverRow(BBB, 8, "Purchase", 500),
      QuiverRow(<<"C">>, 90, "Sale (Full)", 1000),
      QuiverRow(<<"C">>, 45, "Purchase", 250) }

MaxFrame == 2

PlanWorlds ==
    [portal : [landing : {"ok"}, pages : PlanPages],
     broker : [close_fail : {0}, cash : {100000, 100001, 100003, 33333},
               unknown : {{}}, not_fractionable : AtMostOne({<<"A">>, AAA}),
               rejected : {{}}],
     quiver : SeqsUpTo(QuiverRows, MaxFrame),
     now : {200, 201},
     position_length : {60}]

InitPlan ==
    /\ world \in PlanWorlds
    /\ pc = "plan"
    /\ clock = NoClock
    /\ next_rebalance = 0
    /\ time = 0
    /\ iters = 0
    /\ last = NoIteration
    /\ out = NoScrape

\* load_orders() of strategy.py
BuildPlan ==
    /\ pc = "plan"
    /\ \E l \in {load_orders(world.portal, world.now, world.position_length,
                              world.broker, 1)} :
         last' = [NoIteration EXCEPT !.propagated = l.raised, !.calls = l.calls,
                                     !.orders = l.orders]
    /\ pc' = "planned"
    /\ UNCHANGED <<world, clock, next_rebalance, time, iters, out>>

\* load_orders_df() of senate_long.py
ScriptPlan ==
    /\ pc = "plan"
    /\ last' = [NoIteration EXCEPT
                  !.calls = <<Call("quiver.senate_trading", 1, <<>>, 0)>>,
                  !.orders = load_orders_df(world.quiver, world.now)]
    /\ pc' = "planned_script"
    /\ UNCHANGED <<world, clock, next_rebalance, time, iters, out>>

\* buy_orders(orders) of strategy.py on the plan just built.  A plan whose
\* weights are NaN is left where it is.
PlacePlan ==
    /\ pc = "planned"
    /\ last.propagated = "none"
    /\ \A k \in 1..Len(last.orders) : last.orders[k].den > 0
    /\ \E b \in {buy_orders(last.orders, world.broker, 1)} :
         last' = [last EXCEPT !.propagated = b.raised, !.calls = @ \o b.calls]
    /\ pc' = "bought"
    /\ UNCHANGED <<world, clock, next_rebalance, time, iters, out>>

NextPlan == BuildPlan \/ ScriptPlan \/ PlacePlan

SpecPlan == InitPlan /\ [][NextPlan]_vars

(***************************************************************************)
(* The script senate_long.py from the start of the process.  Time is the   *)
(* day of the week, 0 for Monday: the market is open on the days 0 to 4,   *)
(* and the calendar repeats.                                               *)
(***************************************************************************)
Weekdays == 0..4

\* The market is open at the opening time of day t.
MarketOpen(t) == (t % 7) \in Weekdays

\* The next open after a reading on day d, in session or after the close.
NextOpen(d) == CHOOSE t \in (d + 1)..(d + 3) :
                  /\ MarketOpen(t)
                  /\ \A u \in (d + 1)..(t - 1) : ~MarketOpen(u)

\* What get_clock() can answer at startup.
ScriptClocks ==
    {[timestamp |-> d, next_open |-> NextOpen(d), is_open |-> o] :
        d \in 0..6, o \in BOOLEAN} \ 
    {c \in [timestamp : 0..6, next_open : 0..10,
            is_open : BOOLEAN] : c.is_open /\ ~MarketOpen(c.timestamp)}

ScriptWorlds ==
    [quiver : SeqsUpTo(QuiverRows, MaxFrame),
     broker : [close_fail : 0..1, cash : {100000}, unknown : {{}},
               not_fractionable : {{}}, rejected : AtMostOne({AAA})],
     clock : ScriptClocks,
     now : {200},
     keyring : {Stored}]

InitScript ==
    /\ world \in ScriptWorlds
    /\ pc = "start"
    /\ clock = NoClock
    /\ next_rebalance = 0
    /\ time = world.clock.timestamp
    /\ iters = 0
    /\ last = NoIteration
    /\ out = NoScrape

\* One pass of the main loop up to the call of wait_for_market.  An
\* exception of the brokerage leaves the script.
ScriptIteration ==
    /\ pc = "script"
    /\ iters < MaxIters
    /\ \E r \in {main_cycle(world, clock, iters + 1)} :
         /\ last' = [NoIteration EXCEPT !.propagated = r.raised, !.calls = r.calls,
                                        !.orders = r.orders, !.started = time]
         /\ pc' = IF r.raised # "none" THEN "crashed" ELSE "sleeping"
    /\ UNCHANGED <<world, clock, next_rebalance, time, iters, out>>

\* wait_for_market, the sleep to week_open.
WeekSleep ==
    /\ pc = "sleeping"
    /\ time' = (time + (week_open(clock) - clock.timestamp)) % 7
    /\ pc' = "waiting"
    /\ UNCHANGED <<world, clock, next_rebalance, iters, last, out>>

\* wait_for_market, one turn of its while loop: the sleep from the
\* timestamp to the next open of the clock read at startup.
DaySleep ==
    /\ pc = "waiting"
    /\ market_closed(clock)
    /\ time' = (time + (clock.next_open - clock.timestamp)) % 7
    /\ last' = [last EXCEPT !.slept = TRUE]
    /\ UNCHANGED <<world, pc, clock, next_rebalance, iters, out>>

\* wait_for_market returns and the main loop starts its next pass.
WaitReturn ==
    /\ pc = "waiting"
    /\ ~market_closed(clock)
    /\ pc' = "script"
    /\ iters' = iters + 1
    /\ UNCHANGED <<world, clock, next_rebalance, time, last, out>>

NextScript == ScriptStart \/ ScriptIteration \/ WeekSleep \/ DaySleep \/ WaitReturn

\* A sleep ends and a statement that can run does run.
SpecScript == InitScript /\ [][NextScript]_vars /\ WF_vars(NextScript)

(***************************************************************************)
(* Properties of run() and rebalance().                                    *)
(***************************************************************************)
Submitted(calls, ticker) ==
    Cardinality({j \in 1..Len(calls) :
                    calls[j].op = "submit_order" /\ calls[j].ticker = ticker})

\* A collaborator raised, or the code itself did, while rebalance() ran.
RaisedInRebalance == last.rebalanced /\ (last.propagated # "none" \/ last.caught # "none")

\* C1: when liquidate_all, build_plan or submit_plan raises during a call of
\* rebalance(), the exception does not leave rebalance() and the next
\* rebalance is due at the clock's next open.
C1_FailureDefersToNextOpen ==
    RaisedInRebalance =>
        /\ last.propagated = "none"
        /\ pc = "loop"
        /\ next_rebalance = clock.next_open

\* The portal and the brokerage fail nothing the cycle asks of them and at
\* least one transaction qualifies.
CollaboratorsSucceed ==
    /\ world.broker.close_fail = 0
    /\ world.broker.unknown = {}
    /\ world.broker.rejected = {}
    /\ \E j \in 1..Len(last.calls) : last.calls[j].op = "get_account"

\* C2: a call of rebalance() in which nothing fails returns after exactly one
\* pass: one close_all_positions, one read of the cash, each plan entry
\* submitted at most once.
C2_OnePassPerCycle ==
    (last.rebalanced /\ CollaboratorsSucceed) =>
        /\ last.propagated = "none"
        /\ last.caught = "none"
        /\ CountOp(last.calls, "close_all_positions") = 1
        /\ CountOp(last.calls, "get_account") = 1
        /\ \A t \in Tickers : Submitted(last.calls, t) <= 1

\* C9: a rejected order does not end the buy phase: every plan entry after it
\* whose asset is fractionable is still submitted, and the rejected entry is
\* submitted once only.
C9_RejectionSkipsOneOrder ==
    (last.rebalanced /\ world.broker.unknown = {}) =>
        \A k \in 1..Len(last.orders) :
            /\ Submitted(last.calls, last.orders[k].ticker) <= 1
            /\ (/\ \E j \in 1..(k - 1) : last.orders[j].ticker \in world.broker.rejected
                /\ last.orders[k].ticker \notin world.broker.not_fractionable)
               => Submitted(last.calls, last.orders[k].ticker) = 1

\* No transaction of the portal passes the filters of fetch_txs (ticker, date,
\* type), and every amount cell parses.
FilteredSetEmpty ==
    LET reports == senator_reports(world.portal).all_reports
    IN  \A k \in 1..Len(reports) :
            \/ reports[k].redirects > 0
            \/ reports[k].page.tbodies = 0
            \/ \A j \in 1..Len(reports[k].page.rows) :
                 LET row == reports[k].page.rows[j]
                 IN  /\ tx_amount(row.amount).raised = "none"
                     /\ \/ Strip(row.ticker) \in {<<"-", "-">>, <<>>}
                        \/ ~on_or_after_cutoff(row.day, world.now, world.position_length)
                        \/ row.type # "Purchase"

\* C10: with no Purchase inside position_length days the plan is empty,
\* nothing raises, and the cycle submits no order.
C10_EmptyPlanIsNoCrash ==
    (last.rebalanced /\ FilteredSetEmpty) =>
        /\ last.propagated = "none"
        /\ last.caught = "none"
        /\ CountOp(last.calls, "submit_order") = 0

(***************************************************************************)
(* Properties of the loop of run().                                        *)
(***************************************************************************)
\* C3: after an iteration the loop is still running, and an iteration that
\* starts when the brokerage's timestamp has reached next_rebalance
\* rebalances.
C3_RebalanceRecurs ==
    iters > 0 =>
        /\ pc = "loop"
        /\ (last.started >= last.due_before => last.rebalanced)

\* C4: an iteration calls the brokerage only when the clock timestamp has
\* reached next_rebalance; otherwise it makes no call and only waits.
C4_RebalanceOnlyWhenDue ==
    iters > 0 =>
        /\ (last.rebalanced \/ last.calls # <<>>) => clock.timestamp >= last.due_before
        /\ clock.timestamp < last.due_before =>
              /\ ~last.rebalanced
              /\ last.calls = <<>>
              /\ last.slept \/ last.interrupted
              /\ next_rebalance = last.due_before

\* An iteration in which no rebalance was due and the scheduler slept to the
\* next open.
C4_Witness ==
    /\ iters > 0
    /\ clock.timestamp < last.due_before
    /\ last.slept
    /\ time = last.started + (clock.next_open - clock.timestamp)

\* C5: a KeyboardInterrupt during the wait ends the loop of run().
C5_InterruptEndsLoop == last.interrupted => pc # "loop"

(***************************************************************************)
(* Properties of the scrapers.                                             *)
(***************************************************************************)
\* The number of leading index pages that are answered 200 with rows.
RECURSIVE FullPages(_, _)
FullPages(pages, n) ==
    IF n < Len(pages) /\ pages[n + 1].status = 200 /\ pages[n + 1].data # <<>>
    THEN FullPages(pages, n + 1)
    ELSE n

\* The rows of the first n pages, in page order.
RECURSIVE Concatenated(_, _)
Concatenated(pages, n) ==
    IF n = 0 THEN <<>> ELSE Concatenated(pages, n - 1) \o pages[n].data

\* The page after the full pages is an empty page (answered 200), or the
\* portal holds no further page and answers likewise.
ThenOneEmptyPage(pages) ==
    LET n == FullPages(pages, 0)
    IN  n < Len(pages) => pages[n + 1].status = 200

\* The enumeration ran: either scraper, the earlier one only when its
\* bootstrap returned.
Enumerated ==
    \/ out.impl = "scraper"
    \/ out.impl = "senate_scraper" /\ world.portal.landing = "ok"

\* C6: against N full pages followed by an empty page, senator_reports asks
\* for the offsets 0, L, ..., N*L and no other, and returns the rows of the N
\* pages in request order.
C6_EnumerationStopsAtFirstEmptyPage ==
    (Enumerated /\ ThenOneEmptyPage(world.portal.pages)) =>
        LET n == FullPages(world.portal.pages, 0)
        IN  /\ out.requests = [k \in 1..(n + 1) |-> (k - 1) * BATCH_SIZE]
            /\ out.all_reports = Concatenated(world.portal.pages, n)

\* Two full pages, the empty page, and requests at 0, 100 and 200.
C6_Witness ==
    /\ out.impl = "scraper"
    /\ Len(world.portal.pages) >= 3
    /\ FullPages(world.portal.pages, 0) = 2
    /\ world.portal.pages[3].status = 200
    /\ out.requests = <<0, 100, 200>>
    /\ Len(out.all_reports) >= 3

\* C7: a filing whose first GET is redirected costs one bootstrap and two
\* GETs, any other filing one GET and no bootstrap; a filing whose second GET
\* is redirected too yields no transaction.
C7_OneRebootstrapPerFiling ==
    \A k \in 1..Len(out.filings) :
        LET f == out.filings[k]
        IN  /\ f.redirects >= 1 => (f.bootstraps = 1 /\ f.gets = 2)
            /\ f.redirects = 0 => (f.bootstraps = 0 /\ f.gets = 1)
            /\ f.redirects >= 2 => (f.raised = "none" /\ f.txs = <<>>)

\* C8: a filing whose extraction fails is skipped: the scrape still visits
\* every filing of the index and no parse failure leaves senate_trading.
C8_FilingFailureIsSkipped ==
    out.impl = "scraper" =>
        /\ out.raised # "ValueError"
        /\ Len(out.filings) = Len(out.all_reports)

(***************************************************************************)
(* Properties of the plan.                                                 *)
(***************************************************************************)
\* The sum of the numerators of the first n weighted amounts.
RECURSIVE SumNum(_, _)
SumNum(orders, n) ==
    IF n = 0 THEN 0 ELSE SumNum(orders, n - 1) + orders[n].num

Abs(x) == IF x < 0 THEN -x ELSE x

\* C11: the weighted amounts of a non-empty plan are numbers and sum to the
\* cash, to within one cent.
C11_WeightsSumToCapital ==
    (pc = "planned" /\ last.propagated = "none" /\ last.orders # <<>>) =>
        LET den == last.orders[1].den
        IN  /\ den > 0
            /\ Abs(SumNum(last.orders, Len(last.orders)) - world.broker.cash * den) <= den

\* A table row that the plan is to hold: a ticker, a date not before the
\* cutoff, the wanted type.
Qualifies(row, now, lookback) ==
    /\ Strip(row.ticker) \notin {<<"-", "-">>, <<>>}
    /\ 2 * row.day >= now - 2 * lookback
    /\ row.type = "Purchase"

\* The qualifying rows of the first k filings, in filing order.
RECURSIVE QualifyingRows(_, _, _, _)
QualifyingRows(reports, k, now, lookback) ==
    IF k = 0 THEN <<>>
    ELSE QualifyingRows(reports, k - 1, now, lookback) \o
         (IF reports[k].redirects = 0 /\ reports[k].page.tbodies > 0
          THEN SelectSeq(reports[k].page.rows, LAMBDA row : Qualifies(row, now, lookback))
          ELSE <<>>)

\* The qualifying rows of the portal of the world.
PortalRecords ==
    LET reports == Concatenated(world.portal.pages, Len(world.portal.pages))
    IN  QualifyingRows(reports, Len(reports), world.now, world.position_length)

\* The sum of the amounts of the first n rows.
RECURSIVE SumCells(_, _)
SumCells(rows, n) ==
    IF n = 0 THEN 0 ELSE SumCells(rows, n - 1) + tx_amount(rows[n].amount).val

\* The qualifying rows of the frame of the world.
FrameRecords ==
    SelectSeq(world.quiver, LAMBDA row : /\ 2 * row.Date >= world.now - 2 * POSITION_LENGTH
                                         /\ row.Transaction = "Purchase")

RECURSIVE SumFrame(_, _)
SumFrame(rows, n) ==
    IF n = 0 THEN 0 ELSE SumFrame(rows, n - 1) + rows[n].Amount

\* The plan of strategy.py holds one row per qualifying record, each
\* weighted amount / sum * cash.
PlanIsProportional ==
    LET recs == PortalRecords
        total == SumCells(recs, Len(recs))
    IN  /\ Len(last.orders) = Len(recs)
        /\ \A j \in 1..Len(recs) :
             Cardinality({k \in 1..Len(last.orders) :
                            /\ last.orders[k].ticker = Strip(recs[j].ticker)
                            /\ last.orders[k].tx_amount = tx_amount(recs[j].amount).val
                            /\ last.orders[k].tx_date = recs[j].day})
             = Cardinality({i \in 1..Len(recs) :
                              /\ Strip(recs[i].ticker) = Strip(recs[j].ticker)
                              /\ recs[i].amount = recs[j].amount
                              /\ recs[i].day = recs[j].day})
        /\ \A k \in 1..Len(last.orders) :
             /\ last.orders[k].num = last.orders[k].tx_amount * world.broker.cash
             /\ last.orders[k].den = total

\* The plan of senate_long.py likewise, with FUND_SIZE dollars for the cash.
ScriptPlanIsProportional ==
    LET recs == FrameRecords
        total == SumFrame(recs, Len(recs))
    IN  /\ Len(last.orders) = Len(recs)
        /\ \A j \in 1..Len(recs) :
             /\ last.orders[j].ticker = recs[j].Ticker
             /\ last.orders[j].num = recs[j].Amount * 100000
             /\ last.orders[j].den = total

\* The notional of the plan entry for a ticker, in cents; 0 when there is
\* none.
Rounded(orders, ticker) ==
    IF \E k \in 1..Len(orders) : orders[k].ticker = ticker
    THEN LET k == CHOOSE k \in 1..Len(orders) : orders[k].ticker = ticker
         IN  round2(orders[k].num, orders[k].den)
    ELSE 0

\* AAA $300 and BBB $700 against 1000.00
SharesScenario ==
    \/ /\ pc = "planned"
       /\ world.portal.pages = <<IndexPage(200, <<RowShares>>)>>
       /\ world.broker.cash = 100000
    \/ /\ pc = "planned_script"
       /\ world.quiver = <<QuiverRow(AAA, 91, "Purchase", 300),
                           QuiverRow(BBB, 90, "Purchase", 700)>>

\* C12: each plan entry is weighted amount / sum of the filtered amounts *
\* capital, one entry per qualifying transaction; AAA $300 and BBB $700
\* against 1000.00 give 300.00 and 700.00.
C12_WeightIsShareOfCapital ==
    /\ (pc = "planned" /\ last.propagated = "none") => PlanIsProportional
    /\ pc = "planned_script" => ScriptPlanIsProportional
    /\ SharesScenario =>
          /\ Len(last.orders) = 2
          /\ Rounded(last.orders, AAA) = 30000
          /\ Rounded(last.orders, BBB) = 70000

\* The scenario of C12 planned by strategy.py.
C12_Witness ==
    /\ pc = "planned"
    /\ SharesScenario
    /\ Len(last.orders) = 2
    /\ Rounded(last.orders, BBB) = 70000

\* Day 100: AAA bought 31 days back, BBB 92 days back, 1000.00 to place.
LookbackScenario ==
    \/ /\ pc = "planned"
       /\ world.portal.pages = <<IndexPage(200, <<RowLookback>>)>>
       /\ world.broker.cash = 100000
    \/ /\ pc = "planned_script"
       /\ world.quiver = <<QuiverRow(AAA, 69, "Purchase", 1000),
                           QuiverRow(BBB, 8, "Purchase", 500)>>

\* C13: no plan entry is dated before now minus the lookback or has another
\* type than Purchase, and the sum that weights the plan is the sum over the
\* plan's own entries; with AAA inside the lookback and BBB outside it the
\* plan is the one entry AAA at 1000.00.
C13_FilteredRecordsStayOut ==
    /\ (pc = "planned" /\ last.propagated = "none") =>
          /\ \A k \in 1..Len(last.orders) :
               /\ 2 * last.orders[k].tx_date >= world.now - 2 * world.position_length
               /\ last.orders[k].type = "Purchase"
               /\ last.orders[k].den = SumAmounts(last.orders, Len(last.orders))
    /\ pc = "planned_script" =>
          /\ Len(last.orders) <= Len(FrameRecords)
          /\ \A k \in 1..Len(last.orders) :
               /\ \E j \in 1..Len(FrameRecords) :
                     /\ FrameRecords[j].Ticker = last.orders[k].ticker
                     /\ FrameRecords[j].Amount * 100000 = last.orders[k].num
               /\ last.orders[k].den * 100000 = SumNum(last.orders, Len(last.orders))
    /\ LookbackScenario =>
          /\ Len(last.orders) = 1
          /\ last.orders[1].ticker = AAA
          /\ Rounded(last.orders, AAA) = 100000

\* The scenario of C13 planned by strategy.py, with the rows of another
\* filing filtered too.
C13_Witness ==
    /\ pc = "planned"
    /\ LookbackScenario
    /\ Len(last.orders) = 1
    /\ Rounded(last.orders, AAA) = 100000

(***************************************************************************)
(* Properties of the extraction and of the session.                        *)
(***************************************************************************)
\* C14: every record that the extraction of a filing produces has a ticker
\* other than '' and '--' and an amount above 0.
C14_RecordsHaveTickerAndAmount ==
    \A k \in 1..Len(out.filings) :
        \A j \in 1..Len(out.filings[k].txs) :
            /\ out.filings[k].txs[j].ticker \notin {<<>>, <<"-", "-">>}
            /\ out.filings[k].txs[j].tx_amount > 0

\* C15: a bootstrap that finds no hidden field, or neither cookie, gives its
\* caller something other than a token and no exception leaves the
\* enumeration.
C15_BootstrapFailureIsSurfaced ==
    (pc = "scraped" /\ world.portal.landing # "ok") =>
        /\ out.token # "token"
        /\ out.session = "none"

\* The page after the full pages is answered with another status than 200.
ThenOneFailedPage(pages) ==
    LET n == FullPages(pages, 0)
    IN  n < Len(pages) /\ pages[n + 1].status # 200

\* C17: an index request answered with another status than 200 raises
\* nothing and ends the enumeration as an empty page does: the rows of the
\* pages before it are returned and no later page is asked for.
C17_FailedPageEndsEnumeration ==
    (Enumerated /\ ThenOneFailedPage(world.portal.pages)) =>
        LET n == FullPages(world.portal.pages, 0)
        IN  /\ out.session = "none"
            /\ out.requests = [k \in 1..(n + 1) |-> (k - 1) * BATCH_SIZE]
            /\ out.all_reports = Concatenated(world.portal.pages, n)

\* The filing has the paper prefix or its detail page holds no tbody.
NoTable(row) == row.pdf \/ row.page.tbodies = 0

CredentialsAbsent == falsy(world.keyring.api_key) \/ falsy(world.keyring.secret_key)

\* C16: started without the brokerage key or secret, the process ends with
\* an exception before it has called the brokerage or the portal.
C16_NoCredentialsNoCalls ==
    (CredentialsAbsent /\ pc # "start") =>
        /\ pc = "aborted"
        /\ last.propagated = "Exception"
        /\ last.calls = <<>>
        /\ iters = 0
        /\ out = NoScrape

\* The process of run() ended at the missing secret.
C16_Witness ==
    /\ world.keyring = [api_key |-> "key", secret_key |-> "None"]
    /\ pc = "aborted"
    /\ last.calls = <<>>

\* C19: the loop is entered with next_rebalance at the timestamp of the
\* clock read at startup, and its first iteration rebalances before any
\* wait.
C19_FirstIterationRebalances ==
    /\ (pc = "loop" /\ iters = 0) => next_rebalance = world.clock.timestamp
    /\ iters = 1 =>
          /\ last.rebalanced
          /\ last.due_before = world.clock.timestamp
          /\ last.started = world.clock.timestamp
          /\ last.calls # <<>>

\* The first iteration has called close_all_positions.
C19_Witness ==
    /\ iters = 1
    /\ last.rebalanced
    /\ last.calls[1].op = "close_all_positions"

\* C20: a call of rebalance() in which liquidation, plan and submission all
\* succeed leaves next_rebalance rebalance_frequency days later than it was.
C20_SuccessAdvancesByFrequency ==
    (last.rebalanced /\ CollaboratorsSucceed) =>
        next_rebalance = last.due_before + world.rebalance_frequency

RECURSIVE SumNotional(_, _)
SumNotional(calls, n) ==
    IF n = 0 THEN 0
    ELSE SumNotional(calls, n - 1) +
         (IF calls[n].op = "submit_order" THEN calls[n].notional ELSE 0)

\* The cash that get_account answered with when the plan was built.
CashRead(calls) ==
    LET j == CHOOSE j \in 1..Len(calls) : calls[j].op = "get_account"
    IN  calls[j].notional

\* C22: the notionals submitted by one call of buy_orders sum to no more
\* than the cash read for the plan plus half a cent for each order
\* submitted.
C22_NotionalWithinCash ==
    pc = "bought" =>
        2 * SumNotional(last.calls, Len(last.calls))
            <= 2 * CashRead(last.calls) + CountOp(last.calls, "submit_order")

\* Three orders whose rounded notionals sum to a cent more than the cash.
C22_Witness ==
    /\ pc = "bought"
    /\ CountOp(last.calls, "submit_order") = 3
    /\ SumNotional(last.calls, Len(last.calls)) > CashRead(last.calls)

\* An entry skipped as not fractionable and the others submitted.
C22_WitnessSkipped ==
    /\ pc = "bought"
    /\ world.broker.not_fractionable # {}
    /\ CountOp(last.calls, "submit_order") > 0
    /\ CountOp(last.calls, "submit_order") < Len(last.orders)

(***************************************************************************)
(* Properties of the weekly script.                                        *)
(***************************************************************************)
\* C23: every call of wait_for_market returns, and when it has returned the
\* market is open, whether the clock read at startup said open or closed.
C23_WaitReturnsAtOpenMarket ==
    /\ [](pc \in {"sleeping", "waiting"} => <>(pc = "script"))
    /\ []((pc = "script" /\ iters > 0) => MarketOpen(time))

====
